---- MODULE Spec2Model ----
(***************************************************************************)
(* Ticket lifecycle of the tickets app: identifier allocation              *)
(* (get_next_ticket_id), the Ticket / TicketComment save hooks, the        *)
(* create / update / comment / bulk-action views, Ticket.is_overdue and    *)
(* the SLA compliance figures of reports_dashboard.                        *)
(*                                                                         *)
(* Time is counted in whole hours (the unit of SLA.response_time_hours).   *)
(* An optional value (a nullable column, an unsaved pk) is a set: {} is    *)
(* None and {v} is the value v.  A text is a sequence of one-character     *)
(* strings.  The ticket table is a sequence of rows; a row's pk is its     *)
(* index, so 'order_by(id).last()' is the last element.                    *)
(***************************************************************************)
EXTENDS Integers, Sequences, FiniteSets, TLC

\* ------------------------------------------------------------------ bounds
MaxAttach == 2      \* rows of the attachment table
MaxReads == 2       \* reads of file_size_human on one loaded attachment
MaxUsers == 4       \* rows of the user table
MaxSeed == 2        \* rows the ticket table holds when the application starts
NumReq == 2         \* requests served (each slot serves one request)
MaxTime == 1        \* the clock runs from 0 to MaxTime hours
MaxHours == 2       \* SLA hours drawn for the is_overdue check: 0..MaxHours

\* ------------------------------------------------------------ option values
None == {}

Some(v) == {v}

IsSet(o) == o # {}

Val(o) == CHOOSE v \in o : TRUE

\* ------------------------------------------------------------------- texts
Digits == <<"0", "1", "2", "3", "4", "5", "6", "7", "8", "9">>

IsDigit(c) == \E i \in 1..10 : Digits[i] = c

DigitVal(c) == (CHOOSE i \in 1..10 : Digits[i] = c) - 1

\* str.split('-')
RECURSIVE Split(_)
Split(s) ==
    IF \A i \in 1..Len(s) : s[i] # "-"
    THEN <<s>>
    ELSE LET i == CHOOSE k \in 1..Len(s) :
                      s[k] = "-" /\ \A j \in 1..(k - 1) : s[j] # "-"
         IN  <<SubSeq(s, 1, i - 1)>> \o Split(SubSeq(s, i + 1, Len(s)))

\* int(text) on a text of decimal digits; anything else raises ValueError
IntOk(seg) == Len(seg) > 0 /\ \A i \in 1..Len(seg) : IsDigit(seg[i])

RECURSIVE IntOf(_)
IntOf(seg) ==
    IF Len(seg) = 0 THEN 0
    ELSE 10 * IntOf(SubSeq(seg, 1, Len(seg) - 1)) + DigitVal(seg[Len(seg)])

\* str(n) for n >= 0
RECURSIVE Decimal(_)
Decimal(n) ==
    IF n < 10 THEN <<Digits[n + 1]>>
    ELSE Decimal(n \div 10) \o <<Digits[(n % 10) + 1]>>

RECURSIVE ZeroPad(_, _)
ZeroPad(s, width) == IF Len(s) >= width THEN s ELSE ZeroPad(<<"0">> \o s, width)

IdWidth == 6

\* a field of exactly six digits: the low six digits of n
Format06dFixedWidth(n) == ZeroPad(Decimal(n % 1000000), IdWidth)

\* f'{n:06d}'
Format06d(n) == ZeroPad(Decimal(n), IdWidth)

IdPrefix == <<"R", "X", "-", "U", "G", "-", "I", "N", "C", "-">>

SeedId == IdPrefix \o <<"0", "0", "0", "0", "0", "1">>

MinParts == 4

\* ------------------------------------------------------ get_next_ticket_id
\* the successor rendered without the zero padding (f'RX-UG-INC-{new_id}')
NextFromLastUnpadded(ticket_id) ==
    LET parts == Split(ticket_id)
    IN  IF Len(parts) >= MinParts
        THEN IF IntOk(parts[Len(parts)])
             THEN IdPrefix \o Decimal(IntOf(parts[Len(parts)]) + 1)
             ELSE SeedId
        ELSE SeedId

NextFromLast(ticket_id) ==
    LET parts == Split(ticket_id)
    IN  IF Len(parts) >= MinParts
        THEN IF IntOk(parts[Len(parts)])
             THEN IdPrefix \o Format06d(IntOf(parts[Len(parts)]) + 1)
             ELSE SeedId                      \* except ValueError
        ELSE SeedId

\* the numbering of an empty table started at 000000
get_next_ticket_id_zero_seed(table) ==
    IF Len(table) = 0 THEN IdPrefix \o Format06d(0)
    ELSE NextFromLast(table[Len(table)].ticket_id)

\* the try block, given the table the query returns
get_next_ticket_id(table) ==
    IF Len(table) = 0 THEN SeedId
    ELSE NextFromLast(table[Len(table)].ticket_id)

\* the exception classes of the except clause
CaughtErrors == {"OperationalError", "NameError", "ValueError", "AttributeError"}

\* What the query of the try block raises when the database fails, by the
\* database backends the project is set up with: OperationalError (sqlite: no
\* such table; any backend: connection lost) and ProgrammingError (PostgreSQL:
\* relation does not exist).
QueryErrors == {"OperationalError", "ProgrammingError"}

\* get_next_ticket_id with the outcome of its query: db is "ok" or the
\* exception the query raises; raised is "none" or the exception that leaves
\* the function
get_next_ticket_id_on(db, table) ==
    IF db = "ok"
    THEN [raised |-> "none", value |-> get_next_ticket_id(table)]
    ELSE IF db \in CaughtErrors
         THEN [raised |-> "none", value |-> SeedId]
         ELSE [raised |-> db, value |-> <<>>]

\* ------------------------------------------------------------ model choices
STATUS_CHOICES == {"open", "in_progress", "pending", "resolved", "closed", "cancelled"}

PRIORITY_CHOICES == {"p1", "p2", "p3", "p4"}

\* the priorities the requests of this model submit (two of PRIORITY_CHOICES)
Priorities == {"p1", "p3"}

\* the users a ticket is assigned to in this model
Assignees == {"tech"}

Reqs == 1..NumReq

\* SLA rows written by create_sample_data: pk 1..4
SampleSLAs ==
    << [response_time_hours |-> 1, resolution_time_hours |-> 4,  priority |-> "p1", is_active |-> TRUE],
       [response_time_hours |-> 2, resolution_time_hours |-> 8,  priority |-> "p2", is_active |-> TRUE],
       [response_time_hours |-> 4, resolution_time_hours |-> 24, priority |-> "p3", is_active |-> TRUE],
       [response_time_hours |-> 8, resolution_time_hours |-> 72, priority |-> "p4", is_active |-> TRUE] >>

VARIABLES
    store,      \* the ticket table: a sequence of rows, pk = index
    slas,       \* the SLA table: a sequence of rows, pk = index
    history,    \* the TicketHistory table, in insertion order
    comments,   \* the TicketComment table, in insertion order
    now,        \* timezone.now(), in hours
    req,        \* the requests being served: position, model instance, form
                \* data, number of get_next_ticket_id calls made
    issued,     \* the identifiers get_next_ticket_id returned, in order of the calls
    overdue,    \* the last read of Ticket.is_overdue: {} or {[ticket, at, value]}
    alloc,      \* the last direct call of get_next_ticket_id: {} or {[db, raised, value]}
    report,     \* the last reports_dashboard response: {} or {[start_date, end_date, sla_performance]}
    attachments,\* the TicketAttachment table, in insertion order
    loaded,     \* a TicketAttachment instance a template renders: {} or {[pk, file_size, reads]}
    users       \* the User table: a sequence of rows, pk = index

vars == <<store, slas, history, comments, now, req, issued, overdue, alloc, report,
          attachments, loaded, users>>

\* ---------------------------------------------------------------- Ticket
\* Ticket(): the field defaults of a new, unsaved model instance; the default
\* of ticket_id is the callable get_next_ticket_id, which reads the table
NewTicket(table) ==
    [ pk                |-> None,
      ticket_id         |-> get_next_ticket_id(table),
      status            |-> "open",
      priority          |-> "p3",
      sla               |-> None,
      assigned_to       |-> None,
      created_at        |-> None,
      updated_at        |-> None,
      first_response_at |-> None,
      resolved_at       |-> None,
      closed_at         |-> None ]

\* the request slot's instance before any model object is built
NoInstance == [NewTicket(<<>>) EXCEPT !.ticket_id = <<>>]

\* an instance built as Ticket() and filled from the row, except for the
\* ticket_id, which keeps the default the constructor computed
LoadWithDefaultId(table, k) ==
    [table[k] EXCEPT !.ticket_id = get_next_ticket_id(table)]

\* Ticket.objects.get(pk=k), get_object(): an instance holding the stored row
Load(table, k) == table[k]

\* the auto-set blocks with a reset of both timestamps for a reopened ticket
SetTimestampsClearsOnReopen(inst, t) ==
    IF inst.status = "resolved" /\ ~IsSet(inst.resolved_at)
    THEN [inst EXCEPT !.resolved_at = Some(t)]
    ELSE IF inst.status = "closed" /\ ~IsSet(inst.closed_at)
    THEN [inst EXCEPT !.closed_at = Some(t)]
    ELSE IF inst.status \notin {"resolved", "closed"}
    THEN [inst EXCEPT !.resolved_at = None, !.closed_at = None]
    ELSE inst

\* the two auto-set blocks of Ticket.save
SetTimestamps(inst, t) ==
    LET a == IF inst.status = "resolved" /\ ~IsSet(inst.resolved_at)
             THEN [inst EXCEPT !.resolved_at = Some(t)] ELSE inst
    IN  IF a.status = "closed" /\ ~IsSet(a.closed_at)
        THEN [a EXCEPT !.closed_at = Some(t)] ELSE a

\* What a call of super().save() would add to Ticket.save (Django's
\* Model.save): INSERT for an unsaved instance (pk and created_at are filled
\* in), UPDATE of the columns in `fields` (all of them when fields = {}) for a
\* saved one; updated_at is auto_now.  `unique` tells whether the table
\* enforces ticket_id's unique=True; a duplicate INSERT then raises
\* IntegrityError (ok = FALSE).  Ticket.save below makes no such call; the
\* two variants that follow do, and serve to test the claims against it.
BaseSave(table, inst, t, fields, unique) ==
    IF IsSet(inst.pk)
    THEN LET k   == Val(inst.pk)
             new == [inst EXCEPT !.updated_at = Some(t)]
             row == IF fields = {} THEN new
                    ELSE [f \in DOMAIN new |->
                            IF f \in fields THEN new[f] ELSE table[k][f]]
         IN  [table |-> [table EXCEPT ![k] = row], inst |-> new, ok |-> TRUE]
    ELSE IF unique /\ \E k \in 1..Len(table) : table[k].ticket_id = inst.ticket_id
         THEN [table |-> table, inst |-> inst, ok |-> FALSE]
         ELSE LET new == [inst EXCEPT !.pk = Some(Len(table) + 1),
                                      !.created_at = Some(t),
                                      !.updated_at = Some(t)]
              IN  [table |-> Append(table, new), inst |-> new, ok |-> TRUE]

TicketSaveInsertsDuplicates(table, inst, t, fields) ==
    BaseSave(table, SetTimestamps(inst, t), t, fields, FALSE)

TicketSaveWritesRow(table, inst, t, fields) ==
    BaseSave(table, SetTimestamps(inst, t), t, fields, TRUE)

\* a save that inserts the row and raises afterwards
TicketSaveInsertsThenRaises(table, inst, t, fields) ==
    [table |-> Append(table, [SetTimestamps(inst, t) EXCEPT !.pk = Some(Len(table) + 1)]),
     inst |-> SetTimestamps(inst, t), ok |-> FALSE]

\* Ticket.save: the timestamps are set on the instance; the method ends there,
\* without a call of super().save(), so no row is inserted or updated
TicketSave(table, inst, t, fields) ==
    [table |-> table, inst |-> SetTimestamps(inst, t), ok |-> TRUE]

\* SLA.objects.filter(priority=p, is_active=True).first(): None or the pk
FirstActiveSLA(table, p) ==
    LET hits == {k \in 1..Len(table) : table[k].priority = p /\ table[k].is_active}
    IN  IF hits = {} THEN None
        ELSE Some(CHOOSE k \in hits : \A j \in hits : k <= j)

\* create_sample_data: [s for s in slas if s.priority == p][0], or None
FirstSLAOfPriority(table, p) ==
    LET hits == {k \in 1..Len(table) : table[k].priority = p}
    IN  IF hits = {} THEN None
        ELSE Some(CHOOSE k \in hits : \A j \in hits : k <= j)

\* is_overdue without the status test of its first line
is_overdue_ignores_status(ticket, table, t) ==
    IF ~IsSet(ticket.sla)
    THEN FALSE
    ELSE LET sla == table[Val(ticket.sla)]
             created == Val(ticket.created_at)
         IN  IF ~IsSet(ticket.first_response_at)
                   /\ t > created + sla.response_time_hours
             THEN TRUE
             ELSE t > created + sla.resolution_time_hours

\* is_overdue returning from the response branch without falling through
is_overdue_response_only(ticket, table, t) ==
    IF ~IsSet(ticket.sla) \/ ticket.status \in {"resolved", "closed", "cancelled"}
    THEN FALSE
    ELSE LET sla == table[Val(ticket.sla)]
             created == Val(ticket.created_at)
         IN  IF ~IsSet(ticket.first_response_at)
             THEN t > created + sla.response_time_hours
             ELSE t > created + sla.resolution_time_hours

\* is_overdue keeping the response deadline in force after the first response
is_overdue_response_still_counts(ticket, table, t) ==
    IF ~IsSet(ticket.sla) \/ ticket.status \in {"resolved", "closed", "cancelled"}
    THEN FALSE
    ELSE LET sla == table[Val(ticket.sla)]
             created == Val(ticket.created_at)
         IN  IF t > created + sla.response_time_hours
             THEN TRUE
             ELSE t > created + sla.resolution_time_hours

\* is_overdue comparing with = : true in the first hour past a deadline only
is_overdue_first_late_hour(ticket, table, t) ==
    IF ~IsSet(ticket.sla) \/ ticket.status \in {"resolved", "closed", "cancelled"}
    THEN FALSE
    ELSE LET sla == table[Val(ticket.sla)]
             created == Val(ticket.created_at)
         IN  IF ~IsSet(ticket.first_response_at)
                   /\ t = created + sla.response_time_hours + 1
             THEN TRUE
             ELSE t = created + sla.resolution_time_hours + 1

\* Ticket.is_overdue at time t
is_overdue(ticket, table, t) ==
    IF ~IsSet(ticket.sla) \/ ticket.status \in {"resolved", "closed", "cancelled"}
    THEN FALSE
    ELSE LET sla == table[Val(ticket.sla)]
             created == Val(ticket.created_at)
         IN  IF ~IsSet(ticket.first_response_at)
                   /\ t > created + sla.response_time_hours
             THEN TRUE
             ELSE t > created + sla.resolution_time_hours

\* ---------------------------------------------------------- initial state
\* The rows the ticket table holds when the application starts (written by an
\* earlier deployment or a fixture): identifiers 000001, 000002, ... in pk
\* order, every ticket open, created at hour 0 under the medium-priority SLA.
SeedRow(k, responded) ==
    [ pk                |-> Some(k),
      ticket_id         |-> IdPrefix \o Format06d(k),
      status            |-> "open",
      priority          |-> "p3",
      sla               |-> Some(3),
      assigned_to       |-> None,
      created_at        |-> Some(0),
      updated_at        |-> Some(0),
      first_response_at |-> IF responded THEN Some(0) ELSE None,
      resolved_at       |-> None,
      closed_at         |-> None ]

SeedStores ==
    {<<>>} \cup
    { [k \in 1..n |-> SeedRow(k, k = 1 /\ responded)] :
          n \in 1..MaxSeed, responded \in BOOLEAN }

\* the User table after create_sample_data: the superuser 'admin' (pk 1)
StaffOnly ==
    << [origin |-> "command", is_staff |-> TRUE, is_active |-> TRUE] >>

IdleRequest ==
    [kind |-> "none", pc |-> "idle", inst |-> NoInstance, staff |-> FALSE,
     outcome |-> "none", allocations |-> 0]

Init ==
    /\ store \in SeedStores
    /\ slas = SampleSLAs
    /\ history = <<>>
    /\ comments = <<>>
    /\ now = 0
    /\ req = [r \in Reqs |-> IdleRequest]
    /\ issued = <<>>
    /\ overdue = None
    /\ alloc = None
    /\ report = None
    /\ attachments = <<>>
    /\ loaded = None
    /\ users = StaffOnly

\* request slots are taken in order
Free(r) == req[r].pc = "idle" /\ (IF r = 1 THEN TRUE ELSE req[r - 1].pc # "idle")

HistoryEntry(k, action, changes) ==
    [ticket |-> k, action |-> action, changes |-> changes, timestamp |-> now]

\* ------------------------------------------------------- TicketCreateView
\* POST /tickets/create/: get_form builds TicketForm on a new Ticket(), whose
\* ticket_id default reads the table; is_valid copies the form data onto it
CreateBegin(r, priority) ==
    /\ Free(r)
    /\ LET inst == [NewTicket(store) EXCEPT !.priority = priority]
       IN  /\ req' = [req EXCEPT ![r] = [kind |-> "create", pc |-> "form_valid",
                                         inst |-> inst, staff |-> FALSE,
                                         outcome |-> "none", allocations |-> 1]]
           /\ issued' = Append(issued, inst.ticket_id)
    /\ UNCHANGED <<store, slas, history, comments, now, overdue, alloc, report,
                 attachments, loaded, users>>

\* form_valid: SLA auto-assignment, form.save() (Ticket.save), the redirect to
\* get_absolute_url() (NoReverseMatch for an object without pk, an
\* IntegrityError of the save propagates too), then the 'created' history entry
CreateFormValid(r) ==
    /\ req[r].kind = "create" /\ req[r].pc = "form_valid"
    /\ LET inst  == req[r].inst
           found == FirstActiveSLA(slas, inst.priority)
           withSla == IF ~IsSet(inst.sla) /\ IsSet(found)
                      THEN [inst EXCEPT !.sla = found] ELSE inst
           saved == TicketSave(store, withSla, now, {})
           good  == saved.ok /\ IsSet(saved.inst.pk)
       IN  /\ store' = saved.table
           /\ history' = IF good
                         THEN Append(history,
                                     HistoryEntry(Val(saved.inst.pk), "created", {}))
                         ELSE history
           /\ req' = [req EXCEPT ![r].pc = "done", ![r].inst = saved.inst,
                                 ![r].outcome = IF good THEN "ok" ELSE "error"]
    /\ UNCHANGED <<slas, comments, now, issued, overdue, alloc, report,
                 attachments, loaded, users>>

\* --------------------------------------------- create_sample_data command
SampleStatuses == {"in_progress", "open", "pending", "resolved", "closed"}

\* Ticket.objects.create(...): Ticket(**kwargs) then save(force_insert=True)
SampleCreate(r, status, priority) ==
    /\ Free(r)
    /\ LET inst  == [NewTicket(store) EXCEPT
                        !.status = status, !.priority = priority,
                        !.sla = FirstSLAOfPriority(slas, priority)]
           saved == TicketSave(store, inst, now, {})
       IN  /\ store' = saved.table
           /\ issued' = Append(issued, inst.ticket_id)
           /\ req' = [req EXCEPT ![r] = [kind |-> "command", pc |-> "done",
                                         inst |-> saved.inst, staff |-> FALSE,
                                         outcome |-> IF saved.ok THEN "ok"
                                                     ELSE "error",
                                         allocations |-> 1]]
    /\ UNCHANGED <<slas, history, comments, now, overdue, alloc, report,
                 attachments, loaded, users>>

\* ------------------------------------------------------- TicketUpdateView
TrackedFields == {"status", "priority", "assigned_to"}

\* POST /tickets/<pk>/edit/: get_object loads the row, is_valid copies the
\* submitted status and priority onto the instance (the other form fields
\* are submitted with the values they were rendered with)
UpdateBegin(r, k, status, priority) ==
    /\ Free(r)
    /\ k \in 1..Len(store)
    /\ req' = [req EXCEPT ![r] =
                 [kind |-> "update", pc |-> "form_valid",
                  inst |-> [Load(store, k) EXCEPT !.status = status,
                                                  !.priority = priority],
                  staff |-> FALSE, outcome |-> "none", allocations |-> 0]]
    /\ UNCHANGED <<store, slas, history, comments, now, issued, overdue, alloc, report,
                 attachments, loaded, users>>

\* form_valid: the row is read again for the change list, form.save()
\* (Ticket.save), then one 'updated' history entry when a tracked field differs
UpdateFormValid(r) ==
    /\ req[r].kind = "update" /\ req[r].pc = "form_valid"
    /\ LET inst  == req[r].inst
           k     == Val(inst.pk)
           old_ticket == Load(store, k)
           changes == {f \in TrackedFields : old_ticket[f] # inst[f]}
           saved == TicketSave(store, inst, now, {})
       IN  /\ store' = saved.table
           /\ history' = IF saved.ok /\ changes # {}
                         THEN Append(history, HistoryEntry(k, "updated", changes))
                         ELSE history
           /\ req' = [req EXCEPT ![r].pc = "done", ![r].inst = saved.inst,
                                 ![r].outcome = IF saved.ok THEN "ok" ELSE "error"]
    /\ UNCHANGED <<slas, comments, now, issued, overdue, alloc, report,
                 attachments, loaded, users>>

\* ------------------------------------------------------------ add_comment
\* POST /tickets/<pk>/comment/ by a staff or non-staff user: the ticket is loaded
CommentBegin(r, k, staff) ==
    /\ Free(r)
    /\ k \in 1..Len(store)
    /\ req' = [req EXCEPT ![r] = [kind |-> "comment", pc |-> "save",
                                  inst |-> Load(store, k), staff |-> staff,
                                  outcome |-> "none", allocations |-> 0]]
    /\ UNCHANGED <<store, slas, history, comments, now, issued, overdue, alloc, report,
                 attachments, loaded, users>>

\* TicketComment.save on the new comment (the comment row is inserted, then
\* the first-response block runs on comment.ticket), then the history entry
CommentSave(r) ==
    /\ req[r].kind = "comment" /\ req[r].pc = "save"
    /\ LET inst  == req[r].inst
           k     == Val(inst.pk)
           is_new == TRUE
           first == is_new /\ ~IsSet(inst.first_response_at) /\ req[r].staff
           marked == [inst EXCEPT !.first_response_at = Some(now)]
           saved == IF first THEN TicketSave(store, marked, now, {"first_response_at"})
                    ELSE [table |-> store, inst |-> inst, ok |-> TRUE]
       IN  /\ comments' = Append(comments, [ticket |-> k, staff |-> req[r].staff,
                                            created_at |-> now])
           /\ store' = saved.table
           /\ history' = Append(history, HistoryEntry(k, "comment_added", {}))
           /\ req' = [req EXCEPT ![r].pc = "done", ![r].inst = saved.inst,
                                 ![r].outcome = "ok"]
    /\ UNCHANGED <<slas, now, issued, overdue, alloc, report,
                 attachments, loaded, users>>

\* --------------------------------------------------------- add_attachment
\* POST /tickets/<pk>/attachment/ with a file of `size` bytes:
\* TicketAttachment.save copies file.size to file_size and inserts the row,
\* then the 'attachment_added' history entry is written
AddAttachment(k, size) ==
    /\ k \in 1..Len(store)
    /\ Len(attachments) < MaxAttach
    /\ attachments' = Append(attachments, [ticket |-> k, file_size |-> size])
    /\ history' = Append(history, HistoryEntry(k, "attachment_added", {}))
    /\ UNCHANGED <<store, slas, comments, now, req, issued, overdue, alloc, report,
                 loaded, users>>

\* ------------------------------------------- TicketAttachment.file_size_human
\* The file_size attribute of a loaded attachment is the stored integer num
\* divided `shift` times by 1024.0 (a float once shift > 0; the divisions are
\* exact, 1024 being a power of two).
RECURSIVE Pow1024(_)
Pow1024(e) == IF e = 0 THEN 1 ELSE 1024 * Pow1024(e - 1)

\* self.file_size < 1024.0 (num is a PositiveIntegerField, below 2^31)
Below1024(size) ==
    IF size.shift > 3 THEN TRUE ELSE size.num \div Pow1024(size.shift) < 1024

\* f"{self.file_size:.1f}": the value in tenths, a tie going to the even tenth
OneDecimal(size) ==
    LET d == Pow1024(size.shift)
        whole == size.num \div d
        q == (10 * (size.num % d)) \div d
        rem == (10 * (size.num % d)) % d
        tenths == 10 * whole + q
    IN  IF 2 * rem < d THEN tenths
        ELSE IF 2 * rem > d THEN tenths + 1
        ELSE IF tenths % 2 = 0 THEN tenths ELSE tenths + 1

Units == <<"B", "KB", "MB", "GB">>

\* the loop from its i-th unit on: the text returned and the value the
\* attribute file_size is left with
RECURSIVE FileSizeHumanFrom(_, _)
FileSizeHumanFrom(size, i) ==
    IF i > Len(Units)
    THEN [text |-> [tenths |-> OneDecimal(size), unit |-> "TB"], file_size |-> size]
    ELSE IF Below1024(size)
         THEN [text |-> [tenths |-> OneDecimal(size), unit |-> Units[i]],
               file_size |-> size]
         ELSE FileSizeHumanFrom([size EXCEPT !.shift = @ + 1], i + 1)

file_size_human(size) == FileSizeHumanFrom(size, 1)

\* the sizes of the files uploaded in this model, in bytes
FileSizes == {0, 1023, 1024, 1536, 2048, 1048576}

\* TicketAttachmentAdmin's change list fetches a row as an instance ...
LoadAttachment(a) ==
    /\ a \in 1..Len(attachments)
    /\ loaded' = Some([pk |-> a,
                       file_size |-> [num |-> attachments[a].file_size, shift |-> 0],
                       reads |-> <<>>])
    /\ UNCHANGED <<store, slas, history, comments, now, req, issued, overdue, alloc,
                   report, attachments, users>>

\* ... and reads its file_size_human (list_display); the texts read are kept
ReadFileSizeHuman ==
    /\ loaded # None
    /\ \E l \in loaded :
          /\ Len(l.reads) < MaxReads
          /\ LET out == file_size_human(l.file_size)
             IN  loaded' = Some([l EXCEPT !.file_size = out.file_size,
                                          !.reads = Append(@, out.text)])
    /\ UNCHANGED <<store, slas, history, comments, now, req, issued, overdue, alloc,
                   report, attachments, users>>

\* ------------------------------------------------------------ user accounts
\* A row of the user table: the path that created it, is_staff, is_active.
\* allauth signup: CustomSignupForm.save runs CustomAccountAdapter.save_user
\* (is_active = False, saved) and sets is_active = False once more
AccountSignup ==
    /\ Len(users) < MaxUsers
    /\ users' = Append(users, [origin |-> "signup", is_staff |-> FALSE,
                               is_active |-> FALSE])
    /\ UNCHANGED <<store, slas, history, comments, now, req, issued, overdue, alloc,
                   report, attachments, loaded>>

\* allauth social signup: CustomSocialAccountAdapter.save_user
SocialSignup ==
    /\ Len(users) < MaxUsers
    /\ users' = Append(users, [origin |-> "social", is_staff |-> FALSE,
                               is_active |-> FALSE])
    /\ UNCHANGED <<store, slas, history, comments, now, req, issued, overdue, alloc,
                   report, attachments, loaded>>

\* POST /users/register/ by an anonymous visitor: CustomUserCreationForm.save
\* leaves is_active at the field's default, True.  The form has no username
\* field, so the row is saved with username '' and a second registration
\* ends in an IntegrityError (username is unique) with no row written.
Register ==
    /\ Len(users) < MaxUsers
    /\ users' = IF \E u \in 1..Len(users) : users[u].origin = "register"
                THEN users
                ELSE Append(users, [origin |-> "register", is_staff |-> FALSE,
                                    is_active |-> TRUE])
    /\ UNCHANGED <<store, slas, history, comments, now, req, issued, overdue, alloc,
                   report, attachments, loaded>>

\* /users/<pk>/toggle-status/ requested by the logged-in user `actor`
\* (login_required: an active account)
ToggleUserStatus(actor, pk, method) ==
    /\ actor \in 1..Len(users) /\ users[actor].is_active
    /\ pk \in 1..Len(users)
    /\ users' = IF users[actor].is_staff /\ method = "POST"
                THEN [users EXCEPT ![pk].is_active = ~@]
                ELSE users
    /\ UNCHANGED <<store, slas, history, comments, now, req, issued, overdue, alloc,
                   report, attachments, loaded>>

\* ------------------------------------------------------------ bulk_action
\* QuerySet.update(**kw) on the rows whose pk is selected: one UPDATE statement
\* that writes exactly the named columns
UpdateRows(table, ids, assigns) ==
    [k \in 1..Len(table) |->
        IF k \in ids
        THEN [f \in DOMAIN table[k] |->
                 IF f \in DOMAIN assigns THEN assigns[f] ELSE table[k][f]]
        ELSE table[k]]

BulkClose(table, ids, t) ==
    UpdateRows(table, ids, [status |-> "closed", closed_at |-> Some(t)])

BulkStatus(table, ids, status) == UpdateRows(table, ids, [status |-> status])

BulkPriority(table, ids, priority) == UpdateRows(table, ids, [priority |-> priority])

BulkAssign(table, ids, user) == UpdateRows(table, ids, [assigned_to |-> Some(user)])

\* the four branches of bulk_action, on the selected pks
BulkAssignAction(ids, user) ==
    /\ store' = BulkAssign(store, ids, user)
    /\ UNCHANGED <<slas, history, comments, now, req, issued, overdue, alloc, report,
                 attachments, loaded, users>>

BulkStatusAction(ids, status) ==
    /\ store' = BulkStatus(store, ids, status)
    /\ UNCHANGED <<slas, history, comments, now, req, issued, overdue, alloc, report,
                 attachments, loaded, users>>

BulkPriorityAction(ids, priority) ==
    /\ store' = BulkPriority(store, ids, priority)
    /\ UNCHANGED <<slas, history, comments, now, req, issued, overdue, alloc, report,
                 attachments, loaded, users>>

BulkCloseAction(ids) ==
    /\ store' = BulkClose(store, ids, now)
    /\ UNCHANGED <<slas, history, comments, now, req, issued, overdue, alloc, report,
                 attachments, loaded, users>>

\* the non-empty selections of stored tickets (pks that match no row select nothing)
Selections == (SUBSET (1..Len(store))) \ {{}}

\* ------------------------------------------------------------------ clock
Tick(limit) ==
    /\ now < limit
    /\ now' = now + 1
    /\ UNCHANGED <<store, slas, history, comments, req, issued, overdue, alloc, report,
                 attachments, loaded, users>>

\* ------------------------------------------------- reading Ticket.is_overdue
\* TicketAdmin.is_overdue(obj) / the list templates read the property of a
\* stored ticket; the value read is kept with the ticket and the reading time
CheckOverdue(k) ==
    /\ k \in 1..Len(store)
    /\ overdue' = Some([ticket |-> Load(store, k), at |-> now,
                        value |-> is_overdue(Load(store, k), slas, now)])
    /\ UNCHANGED <<store, slas, history, comments, now, req, issued, alloc, report,
                 attachments, loaded, users>>

\* ------------------------------------------------------ reports_dashboard
\* created_at__date: the day an hour falls in
DateOf(t) == t \div 24

\* the default range: the last 30 days
ReportDays == 30

\* tickets_queryset: the pks of the tickets created from start to end (days)
TicketsInRange(table, start, end) ==
    {k \in 1..Len(table) : /\ DateOf(Val(table[k].created_at)) >= start
                           /\ DateOf(Val(table[k].created_at)) <= end}

\* the compliance loop counting with < in place of <=
CompliantCountStrict(table, ids, hours) ==
    Cardinality({k \in ids :
        /\ IsSet(table[k].resolved_at)
        /\ (Val(table[k].resolved_at) - Val(table[k].created_at)) * 3600
              < hours * 3600})

\* the loop over sla_tickets: compliant_tickets, counted ticket by ticket
RECURSIVE CompliantCount(_, _, _)
CompliantCount(table, ids, hours) ==
    IF ids = {} THEN 0
    ELSE LET k == CHOOSE x \in ids : TRUE
             ticket == table[k]
             rest == CompliantCount(table, ids \ {k}, hours)
         IN  IF IsSet(ticket.resolved_at)
             THEN IF (Val(ticket.resolved_at) - Val(ticket.created_at)) * 3600
                       <= hours * 3600
                  THEN rest + 1 ELSE rest
             ELSE rest

\* the rate cut to one decimal instead of rounded
RateTruncated(compliant, total) == (1000 * compliant) \div total

\* round((compliant / total) * 100, 1), in tenths of a percent.  A value
\* halfway between two tenths goes to the even one; that takes a total that
\* is a multiple of 16.
Rate(compliant, total) ==
    LET q == (1000 * compliant) \div total
        rem == (1000 * compliant) % total
    IN  IF 2 * rem < total THEN q
        ELSE IF 2 * rem > total THEN q + 1
        ELSE IF q % 2 = 0 THEN q ELSE q + 1

\* sla_performance: one entry for each active SLA with a ticket in the range
SlaPerformance(table, sla_table, start, end) ==
    LET in_range == TicketsInRange(table, start, end)
        sla_tickets(sla) == {k \in in_range : table[k].sla = Some(sla)}
    IN  { [ sla |-> sla,
            total_tickets |-> Cardinality(sla_tickets(sla)),
            compliant_tickets |->
                CompliantCount(table, sla_tickets(sla),
                               sla_table[sla].resolution_time_hours),
            compliance_rate |->
                Rate(CompliantCount(table, sla_tickets(sla),
                                    sla_table[sla].resolution_time_hours),
                     Cardinality(sla_tickets(sla))) ] :
          sla \in {x \in 1..Len(sla_table) :
                     sla_table[x].is_active /\ Cardinality(sla_tickets(x)) > 0} }

\* GET /reports/ with or without start_date and end_date (days): the range
\* defaults to the ReportDays days up to today
ReportsDashboard(start_date, end_date) ==
    /\ LET end   == IF IsSet(end_date) THEN Val(end_date) ELSE DateOf(now)
           start == IF IsSet(start_date) THEN Val(start_date) ELSE end - ReportDays
       IN  report' = Some([start_date |-> start, end_date |-> end,
                           sla_performance |-> SlaPerformance(store, slas, start, end)])
    /\ UNCHANGED <<store, slas, history, comments, now, req, issued, overdue, alloc,
                 attachments, loaded, users>>

\* ------------------------------------------- calling get_next_ticket_id
\* Ticket() / the migration that adds the column call the default of
\* ticket_id; the outcome is kept with the outcome of the query
CallAllocator(db) ==
    /\ alloc' = Some([db |-> db] @@ get_next_ticket_id_on(db, store))
    /\ UNCHANGED <<store, slas, history, comments, now, req, issued, overdue, report,
                 attachments, loaded, users>>

\* --------------------------------------------------------- specifications
Pks == 1..MaxSeed

\* every operation of the model
Next ==
    \/ \E r \in Reqs, priority \in Priorities : CreateBegin(r, priority)
    \/ \E r \in Reqs : CreateFormValid(r)
    \/ \E r \in Reqs, status \in SampleStatuses, priority \in Priorities :
          SampleCreate(r, status, priority)
    \/ \E r \in Reqs, k \in Pks, status \in STATUS_CHOICES, priority \in Priorities :
          UpdateBegin(r, k, status, priority)
    \/ \E r \in Reqs : UpdateFormValid(r)
    \/ \E r \in Reqs, k \in Pks, staff \in BOOLEAN : CommentBegin(r, k, staff)
    \/ \E r \in Reqs : CommentSave(r)
    \/ \E ids \in Selections, user \in Assignees : BulkAssignAction(ids, user)
    \/ \E ids \in Selections, status \in STATUS_CHOICES : BulkStatusAction(ids, status)
    \/ \E ids \in Selections, priority \in Priorities : BulkPriorityAction(ids, priority)
    \/ \E ids \in Selections : BulkCloseAction(ids)
    \/ \E k \in Pks : CheckOverdue(k)
    \/ \E db \in {"ok"} \cup QueryErrors : CallAllocator(db)
    \/ \E start_date, end_date \in {None, Some(0)} :
          ReportsDashboard(start_date, end_date)
    \/ \E k \in Pks, size \in FileSizes : AddAttachment(k, size)
    \/ \E a \in 1..MaxAttach : LoadAttachment(a)
    \/ ReadFileSizeHuman
    \/ AccountSignup
    \/ SocialSignup
    \/ Register
    \/ \E actor \in 1..MaxUsers, pk \in 1..MaxUsers, method \in {"GET", "POST"} :
          ToggleUserStatus(actor, pk, method)
    \/ Tick(MaxTime)

Spec == Init /\ [][Next]_vars

\* The request handlers that go through Ticket.save (ticket creation by the
\* view and by the sample-data command, ticket update, comment), served
\* concurrently against a table of up to MaxSeed rows.
NextSave ==
    \/ \E r \in Reqs, priority \in Priorities : CreateBegin(r, priority)
    \/ \E r \in Reqs : CreateFormValid(r)
    \/ \E r \in Reqs, status \in SampleStatuses, priority \in Priorities :
          SampleCreate(r, status, priority)
    \/ \E r \in Reqs, k \in Pks, status \in STATUS_CHOICES, priority \in Priorities :
          UpdateBegin(r, k, status, priority)
    \/ \E r \in Reqs : UpdateFormValid(r)
    \/ \E r \in Reqs, k \in Pks, staff \in BOOLEAN : CommentBegin(r, k, staff)
    \/ \E r \in Reqs : CommentSave(r)
    \/ Tick(MaxTime)

SpecSave == Init /\ [][NextSave]_vars

\* Ticket creation alone: the view and the sample-data command, served
\* concurrently against a table of up to MaxSeed rows.
NextCreate ==
    \/ \E r \in Reqs, priority \in Priorities : CreateBegin(r, priority)
    \/ \E r \in Reqs : CreateFormValid(r)
    \/ \E r \in Reqs, status \in SampleStatuses, priority \in Priorities :
          SampleCreate(r, status, priority)
    \/ Tick(MaxTime)

SpecCreate == Init /\ [][NextCreate]_vars

\* The lifecycle of one stored ticket: updates, comments and the status and
\* close branches of bulk_action, served concurrently.
InitLife == Init /\ Len(store) = 1

NextLife ==
    \/ \E r \in Reqs, status \in STATUS_CHOICES :
          UpdateBegin(r, 1, status, store[1].priority)
    \/ \E r \in Reqs : UpdateFormValid(r)
    \/ \E r \in Reqs, staff \in BOOLEAN : CommentBegin(r, 1, staff)
    \/ \E r \in Reqs : CommentSave(r)
    \/ \E status \in STATUS_CHOICES : BulkStatusAction({1}, status)
    \/ BulkCloseAction({1})
    \/ Tick(MaxTime)

SpecLife == InitLife /\ [][NextLife]_vars

\* The writers of first_response_at on one stored ticket: staff and non-staff
\* comments racing with update saves (the form submits a new status) and with
\* the bulk actions that close or reopen the ticket.
NextResponse ==
    \/ \E r \in Reqs, status \in {"in_progress", "resolved"} :
          UpdateBegin(r, 1, status, store[1].priority)
    \/ \E r \in Reqs : UpdateFormValid(r)
    \/ \E r \in Reqs, staff \in BOOLEAN : CommentBegin(r, 1, staff)
    \/ \E r \in Reqs : CommentSave(r)
    \/ BulkStatusAction({1}, "open")
    \/ BulkCloseAction({1})
    \/ Tick(MaxTime)

SpecResponse == InitLife /\ [][NextResponse]_vars

\* The operations on an existing ticket that the ticket_id could pass
\* through: update, comment, attachment and the four branches of bulk_action.
NextIdentity ==
    \/ \E r \in {1} : UpdateBegin(r, 1, "in_progress", "p3")
    \/ \E r \in Reqs : UpdateFormValid(r)
    \/ \E r \in {2} : CommentBegin(r, 1, TRUE)
    \/ \E r \in Reqs : CommentSave(r)
    \/ \E size \in {1024} : AddAttachment(1, size)
    \/ \E ids \in Selections, user \in Assignees : BulkAssignAction(ids, user)
    \/ \E ids \in Selections : BulkStatusAction(ids, "pending")
    \/ \E ids \in Selections : BulkPriorityAction(ids, "p1")
    \/ \E ids \in Selections : BulkCloseAction(ids)

SpecIdentity == InitLife /\ [][NextIdentity]_vars

\* Ticket.save called by the create and update views with every status, on
\* new tickets and on one stored ticket that bulk actions close meanwhile.
NextFrame ==
    \/ \E r \in Reqs : CreateBegin(r, "p1")
    \/ \E r \in Reqs : CreateFormValid(r)
    \/ \E r \in Reqs, status \in STATUS_CHOICES :
          UpdateBegin(r, 1, status, store[1].priority)
    \/ \E r \in Reqs : UpdateFormValid(r)
    \/ BulkCloseAction({1})
    \/ Tick(MaxTime)

SpecFrame == InitLife /\ [][NextFrame]_vars

\* Ticket.is_overdue read for one stored ticket of any status, with or without
\* an SLA and a first response, under an SLA of any hours, while time passes.
OverdueTickets ==
    { [SeedRow(1, FALSE) EXCEPT !.status = status, !.sla = sla,
                                !.first_response_at = first_response_at] :
        status \in STATUS_CHOICES,
        sla \in {None, Some(1)},
        first_response_at \in {None} \cup {Some(t) : t \in 0..MaxHours} }

InitOverdue ==
    /\ store \in {<<ticket>> : ticket \in OverdueTickets}
    /\ slas \in { <<[response_time_hours |-> response, resolution_time_hours |-> resolution,
                     priority |-> "p3", is_active |-> TRUE]>> :
                    response \in 0..MaxHours, resolution \in 0..MaxHours }
    /\ history = <<>>
    /\ comments = <<>>
    /\ now = 0
    /\ req = [r \in Reqs |-> IdleRequest]
    /\ issued = <<>>
    /\ overdue = None
    /\ alloc = None
    /\ report = None
    /\ attachments = <<>>
    /\ loaded = None
    /\ users = StaffOnly

NextOverdue ==
    \/ CheckOverdue(1)
    \/ Tick(MaxHours + 1)

SpecOverdue == InitOverdue /\ [][NextOverdue]_vars

\* Ticket.is_overdue read while time passes and bulk_action resolves and
\* reopens the ticket.
NextOverdueLife ==
    \/ CheckOverdue(1)
    \/ Tick(MaxHours + 1)
    \/ \E status \in {"open", "resolved"} : BulkStatusAction({1}, status)

SpecOverdueLife == InitOverdue /\ [][NextOverdueLife]_vars

\* get_next_ticket_id called on tables of any content.  ticket_id is a
\* CharField of 20 characters that no form exposes: rows come from fixtures
\* (loaddata), which store any text; the texts tried are identifiers in the
\* format of the allocator and texts that depart from it in one way each.
AllocIds ==
    { \* RX-UG-INC-000001, -000009, -000047, -000099, -999999
      IdPrefix \o <<"0", "0", "0", "0", "0", "1">>,
      IdPrefix \o <<"0", "0", "0", "0", "0", "9">>,
      IdPrefix \o <<"0", "0", "0", "0", "4", "7">>,
      IdPrefix \o <<"0", "0", "0", "0", "9", "9">>,
      IdPrefix \o <<"9", "9", "9", "9", "9", "9">>,
      \* 'garbage', '', 'RX-UG-INC', 'RX-UG-INC-'
      <<"g", "a", "r", "b", "a", "g", "e">>,
      <<>>,
      <<"R", "X", "-", "U", "G", "-", "I", "N", "C">>,
      IdPrefix,
      \* 'RX-UG-INC-ABC', 'RX-UG-INC-00A047'
      IdPrefix \o <<"A", "B", "C">>,
      IdPrefix \o <<"0", "0", "A", "0", "4", "7">>,
      \* 'RX-UG-INC-X-000047' (five segments), 'AB-CD-EF-000047' (other prefix)
      IdPrefix \o <<"X", "-", "0", "0", "0", "0", "4", "7">>,
      <<"A", "B", "-", "C", "D", "-", "E", "F", "-", "0", "0", "0", "0", "4", "7">> }

AllocTables ==
    {<<>>} \cup
    UNION { { t \in [1..n -> AllocIds] : \A i, j \in 1..n : i # j => t[i] # t[j] } :
              n \in 1..MaxSeed }

InitAlloc ==
    /\ store \in { [k \in 1..Len(t) |-> [SeedRow(k, FALSE) EXCEPT !.ticket_id = t[k]]] :
                     t \in AllocTables }
    /\ slas = SampleSLAs
    /\ history = <<>>
    /\ comments = <<>>
    /\ now = 0
    /\ req = [r \in Reqs |-> IdleRequest]
    /\ issued = <<>>
    /\ overdue = None
    /\ alloc = None
    /\ report = None
    /\ attachments = <<>>
    /\ loaded = None
    /\ users = StaffOnly

NextAlloc == \E db \in {"ok"} \cup QueryErrors : CallAllocator(db)

SpecAlloc == InitAlloc /\ [][NextAlloc]_vars

\* Files attached to one ticket and their sizes read in the admin list.
NextAttach ==
    \/ \E size \in FileSizes : AddAttachment(1, size)
    \/ \E a \in 1..MaxAttach : LoadAttachment(a)
    \/ ReadFileSizeHuman

SpecAttach == InitLife /\ [][NextAttach]_vars

\* Account creation by visitors and the staff's activation switch.
NextUsers ==
    \/ AccountSignup
    \/ SocialSignup
    \/ Register
    \/ \E actor \in 1..MaxUsers, pk \in 1..MaxUsers, method \in {"GET", "POST"} :
          ToggleUserStatus(actor, pk, method)

SpecUsers == InitLife /\ [][NextUsers]_vars

\* TicketCreateView serving requests against a table loaded from a fixture,
\* whose identifiers need not grow with the primary key
NextCreateOnLoaded ==
    \/ \E r \in Reqs, priority \in Priorities : CreateBegin(r, priority)
    \/ \E r \in Reqs : CreateFormValid(r)

SpecCreateOnLoaded == InitAlloc /\ [][NextCreateOnLoaded]_vars

\* reports_dashboard on tables of up to MaxTickets tickets: each under the
\* first SLA (active or switched off) or under none, created on day 0 or
\* today, and unresolved, resolved exactly at the resolution deadline of the
\* first SLA, or an hour after it.  Today is day ReportDays + 1, so that a
\* ticket of day 0 is outside the default range.
MaxTickets == 3

ReportToday == 24 * (ReportDays + 1)

ReportTickets ==
    { [SeedRow(1, FALSE) EXCEPT
          !.sla = sla, !.created_at = Some(created),
          !.status = IF late = {} THEN "open" ELSE "resolved",
          !.resolved_at = {created + SampleSLAs[1].resolution_time_hours + d : d \in late}] :
        sla \in {None, Some(1)},
        created \in {0, ReportToday},
        late \in {None, Some(0), Some(1)} }

InitReport ==
    /\ \E n \in 0..MaxTickets : \E t \in [1..n -> ReportTickets] :
          store = [k \in 1..n |-> [t[k] EXCEPT !.pk = Some(k),
                                      !.ticket_id = IdPrefix \o Format06d(k)]]
    /\ slas \in {SampleSLAs, [SampleSLAs EXCEPT ![1].is_active = FALSE]}
    /\ history = <<>>
    /\ comments = <<>>
    /\ now = ReportToday
    /\ req = [r \in Reqs |-> IdleRequest]
    /\ issued = <<>>
    /\ overdue = None
    /\ alloc = None
    /\ report = None
    /\ attachments = <<>>
    /\ loaded = None
    /\ users = StaffOnly

NextReport ==
    \E start_date, end_date \in {None, Some(0)} : ReportsDashboard(start_date, end_date)

SpecReport == InitReport /\ [][NextReport]_vars

\* ================================================================== claims
Creating(r) == req[r].kind \in {"create", "command"}

\* the numeric suffix of an identifier
Suffix(ticket_id) == LET parts == Split(ticket_id) IN IntOf(parts[Len(parts)])

Terminal == {"resolved", "closed", "cancelled"}

\* C1: in every reachable state of the ticket table, whatever the interleaving
\* of the creation requests, no two stored tickets have the same ticket_id.
C1_DistinctStoredIds ==
    \A i, j \in 1..Len(store) : i # j => store[i].ticket_id # store[j].ticket_id

\* C1 witness: two rows are stored and two creations that were handed the
\* same identifier have both run to their end.
C1_Witness ==
    /\ Len(store) >= 2
    /\ \E r1, r2 \in Reqs :
          /\ r1 # r2 /\ Creating(r1) /\ Creating(r2)
          /\ req[r1].pc = "done" /\ req[r2].pc = "done"
          /\ req[r1].inst.ticket_id = req[r2].inst.ticket_id

\* C2: two creation requests in flight at the same time never hold the same
\* identifier from get_next_ticket_id.
C2_InFlightIdsDiffer ==
    \A r1, r2 \in Reqs :
        ( /\ r1 # r2
          /\ req[r1].kind = "create" /\ req[r1].pc = "form_valid"
          /\ req[r2].kind = "create" /\ req[r2].pc = "form_valid" )
        => req[r1].inst.ticket_id # req[r2].inst.ticket_id

\* C3: the numeric suffix of each identifier get_next_ticket_id allocates is
\* strictly greater than the suffix of every identifier allocated before it
\* (the stored ones and the ones returned by earlier calls).
C3_SuffixesStrictlyIncrease ==
    \A j \in 1..Len(issued) :
        /\ \A i \in 1..(j - 1) : Suffix(issued[j]) > Suffix(issued[i])
        /\ \A k \in 1..Len(store) : Suffix(issued[j]) > Suffix(store[k].ticket_id)

\* C4: a creation that ends successfully leaves exactly one more stored ticket
\* than before, carrying the allocated identifier, and a successful
\* TicketUpdateView.form_valid leaves the stored ticket with the submitted status.
C4_SavePersists ==
    [][ \A r \in Reqs :
          (req[r].pc # "done" /\ req'[r].pc = "done" /\ req'[r].outcome = "ok")
          => /\ (req'[r].kind \in {"create", "command"}
                   => /\ Len(store') = Len(store) + 1
                      /\ store'[Len(store')].ticket_id = req'[r].inst.ticket_id)
             /\ (req'[r].kind = "update"
                   => store'[Val(req'[r].inst.pk)].status = req'[r].inst.status) ]_vars

\* the step in which request r runs Ticket.save on ticket k from TicketUpdateView
UpdateSaves(r, k) ==
    /\ req[r].kind = "update" /\ req[r].pc = "form_valid" /\ req'[r].pc = "done"
    /\ req[r].inst.pk = Some(k)

\* C5: resolved_at is set at the first save in which the ticket's status is
\* 'resolved' (to the time of that save) and keeps that value through every
\* later operation.
C5_ResolvedAtSetOnceAndKept ==
    [][ \A k \in 1..Len(store) :
          /\ IsSet(store[k].resolved_at) => store'[k].resolved_at = store[k].resolved_at
          /\ \A r \in Reqs :
                ( /\ UpdateSaves(r, k)
                  /\ req[r].inst.status = "resolved"
                  /\ ~IsSet(store[k].resolved_at) )
                => store'[k].resolved_at = Some(now) ]_vars

\* C6: a closed_at that is already set is never changed, by any ticket update
\* or bulk action.
C6_ClosedAtNeverChanges ==
    [][ \A k \in 1..Len(store) :
          IsSet(store[k].closed_at) => store'[k].closed_at = store[k].closed_at ]_vars

\* the step in which request r saves its comment on ticket k
CommentSaves(r, k) ==
    /\ req[r].kind = "comment" /\ req[r].pc = "save" /\ req'[r].pc = "done"
    /\ req[r].inst.pk = Some(k)

\* C7: adding a comment sets the ticket's first_response_at to the comment
\* time if and only if the author is staff and first_response_at is unset;
\* otherwise the comment leaves first_response_at unchanged.
C7_CommentSetsFirstResponse ==
    [][ \A k \in 1..Len(store) : \A r \in Reqs :
          CommentSaves(r, k)
          => store'[k].first_response_at =
                IF req[r].staff /\ ~IsSet(store[k].first_response_at)
                THEN Some(now)
                ELSE store[k].first_response_at ]_vars

\* C8: once the stored first_response_at of a ticket is set, no step of any
\* interleaving of comments, update saves and bulk actions unsets it or
\* replaces it with an earlier time.
C8_FirstResponseNeverRegresses ==
    [][ \A k \in 1..Len(store) :
          IsSet(store[k].first_response_at)
          => /\ IsSet(store'[k].first_response_at)
             /\ Val(store'[k].first_response_at) >= Val(store[k].first_response_at) ]_vars

\* C8 witness: the stored first_response_at is set; an update request (slot 1,
\* begun first) saved its instance after the staff comment of slot 2 was
\* saved, and a bulk close has been applied to the ticket.
C8_Witness ==
    /\ IsSet(store[1].first_response_at)
    /\ IsSet(store[1].closed_at)
    /\ req[1].kind = "update" /\ req[1].pc = "done"
    /\ req[2].kind = "comment" /\ req[2].pc = "done" /\ req[2].staff
    /\ Len(history) = 2
    /\ history[1].action = "comment_added" /\ history[2].action = "updated"

\* C9: the value read from is_overdue is false for every ticket without an SLA
\* and for every ticket whose status is resolved, closed or cancelled.
C9_NotOverdueWithoutSlaOrTerminal ==
    \A o \in overdue :
        (~IsSet(o.ticket.sla) \/ o.ticket.status \in Terminal) => o.value = FALSE

\* C9 witness: is_overdue was read for a resolved ticket with an SLA, no first
\* response, after both deadlines of the SLA had passed.
C9_Witness ==
    \E o \in overdue :
        /\ IsSet(o.ticket.sla) /\ o.ticket.status = "resolved"
        /\ ~IsSet(o.ticket.first_response_at)
        /\ o.at > Val(o.ticket.created_at) + slas[1].response_time_hours
        /\ o.at > Val(o.ticket.created_at) + slas[1].resolution_time_hours
        /\ o.value = FALSE

\* a read of is_overdue for a ticket with an SLA, a non-terminal status and no
\* first response
Unanswered(o) ==
    /\ IsSet(o.ticket.sla) /\ o.ticket.status \notin Terminal
    /\ ~IsSet(o.ticket.first_response_at)

\* C10 (as claimed): for such a ticket is_overdue is true exactly when
\* now > created_at + response_time, whatever the SLA's two times.
C10_OverdueIffResponseLate ==
    \A o \in overdue :
        Unanswered(o)
        => (o.value <=> o.at > Val(o.ticket.created_at)
                               + slas[Val(o.ticket.sla)].response_time_hours)

\* C10 (amended): for such a ticket is_overdue is true exactly when now is
\* past the response deadline or past the resolution deadline.
C10_OverdueIffEitherLate ==
    \A o \in overdue :
        Unanswered(o)
        => (o.value <=>
              \/ o.at > Val(o.ticket.created_at)
                          + slas[Val(o.ticket.sla)].response_time_hours
              \/ o.at > Val(o.ticket.created_at)
                          + slas[Val(o.ticket.sla)].resolution_time_hours)

\* C10 witness: an unanswered ticket read as overdue while the response
\* deadline has not passed (the SLA's resolution time is the shorter one).
C10_Witness ==
    \E o \in overdue :
        /\ Unanswered(o)
        /\ o.value = TRUE
        /\ ~(o.at > Val(o.ticket.created_at)
                      + slas[Val(o.ticket.sla)].response_time_hours)

\* a read of is_overdue for a ticket with an SLA, a non-terminal status and a
\* first response
Answered(o) ==
    /\ IsSet(o.ticket.sla) /\ o.ticket.status \notin Terminal
    /\ IsSet(o.ticket.first_response_at)

\* C11: for a ticket with an SLA, a non-terminal status and first_response_at
\* set, is_overdue is true exactly when now > created_at + resolution_time,
\* whenever the response was given: also when it came after the response deadline.
C11_AnsweredOverdueIffResolutionLate ==
    \A o \in overdue :
        Answered(o)
        => (o.value <=> o.at > Val(o.ticket.created_at)
                               + slas[Val(o.ticket.sla)].resolution_time_hours)

\* C11 witness: the first response came after the response deadline, the
\* response deadline has passed, the resolution deadline has not, and
\* is_overdue was read as false.
C11_Witness ==
    \E o \in overdue :
        /\ Answered(o)
        /\ Val(o.ticket.first_response_at)
              > Val(o.ticket.created_at) + slas[Val(o.ticket.sla)].response_time_hours
        /\ o.at >= Val(o.ticket.first_response_at)
        /\ o.at <= Val(o.ticket.created_at) + slas[Val(o.ticket.sla)].resolution_time_hours
        /\ o.value = FALSE

\* the four timestamps of a ticket are in order when the last three are set
Ordered(ticket) ==
    ( /\ IsSet(ticket.created_at) /\ IsSet(ticket.first_response_at)
      /\ IsSet(ticket.resolved_at) /\ IsSet(ticket.closed_at) )
    => /\ Val(ticket.created_at) <= Val(ticket.first_response_at)
       /\ Val(ticket.first_response_at) <= Val(ticket.resolved_at)
       /\ Val(ticket.resolved_at) <= Val(ticket.closed_at)

\* C12: in every state reachable by ticket updates, comments and bulk actions,
\* a ticket (a stored row, or the ticket object a request has saved) whose
\* first_response_at, resolved_at and closed_at are all set satisfies
\* created_at <= first_response_at <= resolved_at <= closed_at.
C12_TimestampsOrdered ==
    /\ \A k \in 1..Len(store) : Ordered(store[k])
    /\ \A r \in Reqs : req[r].pc = "done" => Ordered(req[r].inst)

\* C13: a ticket creation is reported as failed only after the allocation has
\* been retried: a creation that ended in failure has called
\* get_next_ticket_id again (with a freshly read table) at least once after
\* its first call.
C13_FailureOnlyAfterRetry ==
    \A r \in Reqs :
        (req[r].kind = "create" /\ req[r].pc = "done" /\ req[r].outcome = "error")
        => req[r].allocations >= 2

\* C14: called on a table that holds no ticket, get_next_ticket_id returns the
\* seed identifier RX-UG-INC-000001.
C14_EmptyStoreGivesSeed ==
    \A a \in alloc :
        (a.db = "ok" /\ Len(store) = 0)
        => /\ a.raised = "none"
           /\ a.value = <<"R", "X", "-", "U", "G", "-", "I", "N", "C", "-",
                          "0", "0", "0", "0", "0", "1">>

\* C14 witness: the allocator has been called on the empty table.
C14_Witness ==
    \E a \in alloc : a.db = "ok" /\ Len(store) = 0 /\ a.value = SeedId

\* an identifier in the allocator's format: RX-UG-INC- and six or more digits
WellFormed(ticket_id) ==
    LET parts == Split(ticket_id)
    IN  /\ Len(parts) = 4
        /\ parts[1] = <<"R", "X">> /\ parts[2] = <<"U", "G">>
        /\ parts[3] = <<"I", "N", "C">>
        /\ IntOk(parts[4]) /\ Len(parts[4]) >= 6

\* a successful call of the allocator on a non-empty table of well-formed identifiers
OnWellFormed(a) ==
    /\ a.db = "ok" /\ Len(store) > 0
    /\ \A k \in 1..Len(store) : WellFormed(store[k].ticket_id)

\* the text is RX-UG-INC- followed by the number n in decimal digits, padded
\* with zeros to six digits and no further
Renders(text, n) ==
    LET d == SubSeq(text, Len(IdPrefix) + 1, Len(text))
    IN  /\ Len(text) >= Len(IdPrefix) + 6
        /\ SubSeq(text, 1, Len(IdPrefix)) = IdPrefix
        /\ IntOk(d) /\ IntOf(d) = n
        /\ (Len(d) = 6 \/ d[1] # "0")

\* the largest numeric suffix among the stored identifiers
MaxSuffix ==
    CHOOSE n \in {Suffix(store[k].ticket_id) : k \in 1..Len(store)} :
        \A k \in 1..Len(store) : Suffix(store[k].ticket_id) <= n

C16_NeverRaisesAndFallsBack ==
    \A a \in alloc :
        /\ a.raised = "none"
        /\ ( \/ a.db # "ok"
             \/ (Len(store) > 0 /\ ~WellFormed(store[Len(store)].ticket_id)) )
           => a.value = SeedId

\* the tickets of a report's date range that are associated with policy sla
ReportedUnder(rep, sla) ==
    {k \in 1..Len(store) :
        /\ store[k].sla = Some(sla)
        /\ DateOf(Val(store[k].created_at)) >= rep.start_date
        /\ DateOf(Val(store[k].created_at)) <= rep.end_date}

\* resolved no later than the policy's resolution time after its creation
ResolvedInTime(ticket, sla) ==
    /\ IsSet(ticket.resolved_at)
    /\ Val(ticket.resolved_at) - Val(ticket.created_at) <= slas[sla].resolution_time_hours

\* C17: in the SLA compliance figures of reports_dashboard, for each policy
\* listed 'total' counts every ticket of the report associated with that
\* policy, resolved or not, and 'compliant' counts exactly those of them with
\* resolved_at set and resolved_at - created_at <= the policy's resolution time.
C17_TotalAndCompliantCounts ==
    \A rep \in report : \A e \in rep.sla_performance :
        /\ e.total_tickets = Cardinality(ReportedUnder(rep, e.sla))
        /\ e.compliant_tickets =
              Cardinality({k \in ReportedUnder(rep, e.sla) : ResolvedInTime(store[k], e.sla)})

\* C17 witness: the first policy has one ticket resolved at its deadline, one
\* resolved an hour late and one unresolved; the report gives compliant = 1,
\* total = 3.
C17_Witness ==
    \E rep \in report : \E e \in rep.sla_performance :
        /\ e.sla = 1 /\ e.total_tickets = 3 /\ e.compliant_tickets = 1
        /\ \E i, j, k \in ReportedUnder(rep, 1) :
              /\ ResolvedInTime(store[i], 1)
              /\ IsSet(store[j].resolved_at) /\ ~ResolvedInTime(store[j], 1)
              /\ ~IsSet(store[k].resolved_at)

\* C18: the compliance rate of a listed policy is compliant / total * 100
\* rounded to one decimal place (held in tenths of a percent), with total > 0;
\* an active policy without a ticket in the report is not listed, so that no
\* rate, neither 0 nor 100, is reported for it.
C18_RateRoundedOrAbsent ==
    \A rep \in report :
        /\ \A e \in rep.sla_performance :
              LET exact == 1000 * e.compliant_tickets
                  shown == e.compliance_rate * e.total_tickets
              IN  /\ e.total_tickets > 0
                  /\ 2 * (exact - shown) <= e.total_tickets
                  /\ 2 * (shown - exact) <= e.total_tickets
        /\ \A sla \in 1..Len(slas) :
              ReportedUnder(rep, sla) = {}
              => ~\E e \in rep.sla_performance : e.sla = sla

\* C18 witness: a report lists a policy with 2 compliant tickets of 3 at 66.7
\* and does not list another, active policy that has no ticket in the range.
C18_Witness ==
    \E rep \in report :
        /\ \E e \in rep.sla_performance :
              e.total_tickets = 3 /\ e.compliant_tickets = 2 /\ e.compliance_rate = 667
        /\ \E sla \in 1..Len(slas) :
              /\ slas[sla].is_active /\ ReportedUnder(rep, sla) = {}
              /\ ~\E e \in rep.sla_performance : e.sla = sla

\* C19: whatever the status of a stored ticket, terminal or not, a bulk status
\* action and a ticket update can set every status: the bulk action leaves
\* the ticket with the status chosen, the edit form accepts every status, and
\* the update's form_valid ends without an error and leaves the ticket with
\* the status submitted.
C19_AnyStatusCanBeSet ==
    \A k \in 1..Len(store) : \A status \in STATUS_CHOICES :
        /\ ENABLED (BulkStatusAction({k}, status) /\ store'[k].status = status)
        /\ \A r \in Reqs :
              Free(r) => ENABLED UpdateBegin(r, k, status, store[k].priority)
        /\ \A r \in Reqs :
              ( /\ req[r].kind = "update" /\ req[r].pc = "form_valid"
                /\ req[r].inst.pk = Some(k) /\ req[r].inst.status = status )
              => ENABLED ( /\ UpdateFormValid(r)
                           /\ req'[r].outcome = "ok"
                           /\ store'[k].status = status )

\* C20: a save of a ticket whose status is open, in_progress, pending or
\* cancelled changes none of first_response_at, resolved_at and closed_at; a
\* save with status resolved leaves closed_at and first_response_at as they
\* were, a save with status closed leaves resolved_at and first_response_at as
\* they were.  This is so of the ticket object saved and of the stored ticket.
C20_SaveLeavesOtherTimestamps ==
    [][ \A r \in Reqs :
          (req[r].pc = "form_valid" /\ req'[r].pc = "done")
          => LET before == req[r].inst
                 after  == req'[r].inst
             IN  /\ after.first_response_at = before.first_response_at
                 /\ before.status # "resolved" => after.resolved_at = before.resolved_at
                 /\ before.status # "closed" => after.closed_at = before.closed_at
                 /\ \A k \in before.pk :
                       /\ store'[k].first_response_at = store[k].first_response_at
                       /\ before.status # "resolved"
                            => store'[k].resolved_at = store[k].resolved_at
                       /\ before.status # "closed"
                            => store'[k].closed_at = store[k].closed_at ]_vars

\* C20 witness: an answered ticket closed at hour 0 was saved with status
\* resolved an hour later: resolved_at was set, closed_at and
\* first_response_at are the ones it was loaded with.
C20_Witness ==
    \E r \in Reqs :
        /\ req[r].kind = "update" /\ req[r].pc = "done"
        /\ req[r].inst.status = "resolved"
        /\ req[r].inst.resolved_at = Some(1)
        /\ req[r].inst.closed_at = Some(0)
        /\ req[r].inst.first_response_at = Some(0)

\* C21: after each operation that changes a stored field of a ticket (the
\* save of TicketUpdateView, a branch of bulk_action, a staff comment that
\* sets first_response_at) the stored updated_at is the time of the operation.
C21_UpdatedAtSetOnMutation ==
    [][ \A k \in 1..Len(store) :
          store'[k] # store[k] => store'[k].updated_at = Some(now) ]_vars

\* C22: no ticket update, bulk action, comment or attachment operation changes
\* the ticket_id of an existing ticket: the stored ticket_id stays what it
\* was, and the ticket object a request works on carries the stored ticket_id.
C22_TicketIdImmutable ==
    [][ /\ \A k \in 1..Len(store) : store'[k].ticket_id = store[k].ticket_id
        /\ \A r \in Reqs : \A k \in req'[r].inst.pk :
              req'[r].inst.ticket_id = store'[k].ticket_id ]_vars

\* C22 witness: ticket 1 went through an update, a staff comment, an
\* attachment and the four bulk actions, and carries the identifier it had.
C22_Witness ==
    /\ req[1].kind = "update" /\ req[1].pc = "done"
    /\ req[2].kind = "comment" /\ req[2].pc = "done"
    /\ Len(attachments) >= 1
    /\ store[1].assigned_to # None /\ store[1].priority = "p1"
    /\ store[1].status = "closed" /\ store[1].closed_at # None
    /\ store[1].ticket_id = <<"R", "X", "-", "U", "G", "-", "I", "N", "C", "-",
                              "0", "0", "0", "0", "0", "1">>

\* C23: every step that changes a tracked field (status, priority, assignee,
\* category) of a stored ticket also creates a history entry for that ticket,
\* whichever operation made the change.
C23_TrackedChangeWritesHistory ==
    [][ \A k \in 1..Len(store) :
          (\E f \in TrackedFields : store'[k][f] # store[k][f])
              => /\ Len(history') > Len(history)
                 /\ history'[Len(history')].ticket = k ]_vars

C25_TerminalStatusHasTimestamp ==
    \A k \in 1..Len(store) :
        /\ store[k].status = "resolved" => store[k].resolved_at # None
        /\ store[k].status = "closed" => store[k].closed_at # None

\* C26: a ticket creation that ends in failure leaves the store unchanged: the
\* step that fails adds no ticket and writes no history entry.
C26_FailedCreationLeavesStore ==
    [][ \A r \in Reqs :
          (req[r].kind = "create" /\ req[r].pc = "form_valid"
             /\ req'[r].pc = "done" /\ req'[r].outcome = "error")
          => (store' = store /\ history' = history) ]_vars

\* C26 witness: a creation whose identifier is already carried by a stored
\* ticket has failed; the table holds its two rows and no history.
C26_Witness ==
    \E r \in Reqs :
        /\ req[r].kind = "create" /\ req[r].pc = "done" /\ req[r].outcome = "error"
        /\ \E k \in 1..Len(store) : store[k].ticket_id = req[r].inst.ticket_id
        /\ Len(store) = 2 /\ history = <<>>

\* C27: a stored ticket that references an SLA references one whose priority
\* equals the ticket's current priority.
C27_SlaMatchesPriority ==
    \A k \in 1..Len(store) :
        \A s \in store[k].sla : slas[s].priority = store[k].priority

\* C28: between two consecutive reads of is_overdue for a ticket, the second
\* at the same or a later time: if the first read was true and the ticket's
\* fields are the same, the second read is true; and the second read is false
\* after a true one only if a first response was recorded in between or the
\* status is now resolved, closed or cancelled.
C28_OverdueMonotonic ==
    [][ \A o \in overdue : \A p \in overdue' :
          (o.value /\ p.ticket.pk = o.ticket.pk /\ p.at >= o.at)
          => /\ (p.ticket = o.ticket => p.value)
             /\ (~p.value => \/ ( /\ ~IsSet(o.ticket.first_response_at)
                                  /\ IsSet(p.ticket.first_response_at) )
                             \/ p.ticket.status \in Terminal) ]_vars

\* C28 witness: is_overdue was read as true at an hour before which the
\* ticket already was past its resolution deadline.
C28_Witness ==
    \E o \in overdue :
        /\ o.value = TRUE
        /\ o.at - 1 > Val(o.ticket.created_at)
                        + slas[Val(o.ticket.sla)].resolution_time_hours

\* C29: reading file_size_human has no effect on the attachment: the loaded
\* attachment's file_size is the stored number of bytes after any number of
\* reads, and all reads of one attachment return the same text.
C29_ReadHasNoEffect ==
    \A l \in loaded :
        /\ l.file_size = [num |-> attachments[l.pk].file_size, shift |-> 0]
        /\ \A i, j \in 1..Len(l.reads) : l.reads[i] = l.reads[j]

\* the paths by which a visitor creates an account
SelfService == {"signup", "social", "register"}

====
